---- MODULE Spec2Model ----
(***************************************************************************)
(* Edulink: the export of Google Classroom data (classroom_fetsher.py) and *)
(* its flattening into five record collections (DFtoMongo/script.py).      *)
(*                                                                         *)
(* Python values are tagged records: [ty |-> "None"], [ty |-> "int", v],   *)
(* [ty |-> "str", v], [ty |-> "dict", v] (v a function from keys to        *)
(* values), [ty |-> "list", v] (v a sequence), [ty |-> "datetime", v].     *)
(* A call that raises evaluates to [ty |-> "raise", v |-> <exception>].    *)
(***************************************************************************)
EXTENDS Integers, Sequences, FiniteSets, TLC

VARIABLES
    call,            \* the helper call under test: [fn, arg, ret]
    tzlocal,         \* the UTC offset (minutes) of the machine's local zone
    courses_raw,     \* script.py:43, the "courses" list of the snapshot
    courses_df,      \* script.py:47-51
    students_df,     \* script.py:54-60
    teachers_df,     \* script.py:63-69
    assignments_df,  \* script.py:72-85
    submissions_df,  \* script.py:88-153
    pc,              \* the statement group evaluated next
    raised,          \* per statement group, the exception it raised
    first_run,       \* the frames of an earlier run of script.py on the same file
    store,           \* script.py:157-164, the documents of each collection of db
    docs,            \* per collection, the documents the run has to load
    load_pc,         \* the upsert call of lines 183-187 made next
    loaded,          \* what has been loaded so far
    assignments,     \* classroom_fetsher.py:254, the course work of one course
    futures,         \* lines 257-261, one future per assignment
    completion,      \* the futures in the order they finished
    to_yield,        \* the futures as_completed has still to yield, in order
    early,           \* the futures that had finished when as_completed was entered
    updated_assignments,  \* line 263
    fetch_pc,        \* where _fetch_all_submissions is
    credentials_file,  \* line 32: whether the client secrets file exists
    token_file,      \* line 33: what the token file holds
    creds,           \* the local creds of _authenticate
    self_creds,      \* self.creds
    service,         \* self.service: the credential it was built with
    clock,           \* the time of day, in hours
    auth_pc,         \* where _authenticate is
    paged_call,      \* the paginated fetch under way and what the API answers
    results,         \* the last response of the API
    items,           \* the list the pages are gathered in
    requests,        \* the requests made so far
    ret,             \* what the fetch returned
    page_pc          \* where the fetch is

vars == <<call, tzlocal, courses_raw, courses_df, students_df, teachers_df,
          assignments_df, submissions_df, pc, raised, first_run,
          store, docs, load_pc, loaded,
          assignments, futures, completion, to_yield, early, updated_assignments,
          fetch_pc, credentials_file, token_file, creds, self_creds, service, clock,
          auth_pc, paged_call, results, items, requests, ret, page_pc>>

\* the variables of the load stage, of _fetch_all_submissions, of the fetcher
\* as a whole, and all that the flattening leaves alone
loader == <<store, docs, load_pc, loaded>>

pool == <<assignments, futures, completion, to_yield, early, updated_assignments,
          fetch_pc>>

auth == <<credentials_file, token_file, creds, self_creds, service, clock, auth_pc>>

pager == <<paged_call, results, items, requests, ret, page_pc>>

fetcher == <<pool, auth, pager>>

others == <<loader, fetcher>>

-----------------------------------------------------------------------------
(* Python values                                                           *)

None == [ty |-> "None"]
NaN == [ty |-> "float", v |-> "nan"]
Num(n) == [ty |-> "int", v |-> n]
Str(x) == [ty |-> "str", v |-> x]
Bool(b) == [ty |-> "bool", v |-> b]
Dict(f) == [ty |-> "dict", v |-> f]
List(q) == [ty |-> "list", v |-> q]
Raise(e) == [ty |-> "raise", v |-> e]
EmptyDict == Dict([k \in {} |-> None])

IsRaise(x) == x.ty = "raise"
IsDict(x) == x.ty = "dict"
IsList(x) == x.ty = "list"

\* d.get(k, dflt) on a dict
Get(d, k, dflt) == IF k \in DOMAIN d.v THEN d.v[k] ELSE dflt

\* bool(x): None, 0, "", {} and [] are falsy
Truthy(x) ==
    CASE x.ty = "None" -> FALSE
      [] x.ty = "int" -> x.v # 0
      [] x.ty = "bool" -> x.v
      [] x.ty = "dict" -> DOMAIN x.v # {}
      [] x.ty = "list" -> Len(x.v) > 0
      [] OTHER -> TRUE

\* int(x)
PyInt(x) == IF x.ty = "int" THEN x ELSE Raise("TypeError")

-----------------------------------------------------------------------------
(* datetime: the calendar arithmetic of the standard library               *)

IsLeap(y) == (y % 4 = 0 /\ y % 100 # 0) \/ y % 400 = 0

DaysInMonth(y, m) ==
    IF m = 2 THEN (IF IsLeap(y) THEN 29 ELSE 28)
    ELSE IF m \in {4, 6, 9, 11} THEN 30 ELSE 31

\* the range checks of the datetime constructor
ValidFields(f) ==
    /\ f.y >= 1 /\ f.y <= 9999
    /\ f.mo >= 1 /\ f.mo <= 12
    /\ f.d >= 1 /\ f.d <= DaysInMonth(f.y, f.mo)
    /\ f.h >= 0 /\ f.h <= 23
    /\ f.mi >= 0 /\ f.mi <= 59
    /\ f.s >= 0 /\ f.s <= 59
    /\ f.us >= 0 /\ f.us <= 999999

Naive == [k |-> "naive"]
Offset(n) == [k |-> "off", min |-> n]
tzutc == Offset(0)

Datetime(f, tz) == [ty |-> "datetime", v |-> f, tz |-> tz]

\* datetime(y, mo, d, hh, mm, tzinfo=tz): seconds and microseconds are 0
datetime(y, mo, d, hh, mm, tz) ==
    LET f == [y |-> y, mo |-> mo, d |-> d, h |-> hh, mi |-> mm, s |-> 0, us |-> 0]
    IN  IF ValidFields(f) THEN Datetime(f, tz) ELSE Raise("ValueError")

PrevDay(f) ==
    IF f.d > 1 THEN [f EXCEPT !.d = f.d - 1]
    ELSE IF f.mo > 1 THEN [f EXCEPT !.mo = f.mo - 1, !.d = DaysInMonth(f.y, f.mo - 1)]
    ELSE [f EXCEPT !.y = f.y - 1, !.mo = 12, !.d = 31]

NextDay(f) ==
    IF f.d < DaysInMonth(f.y, f.mo) THEN [f EXCEPT !.d = f.d + 1]
    ELSE IF f.mo < 12 THEN [f EXCEPT !.mo = f.mo + 1, !.d = 1]
    ELSE [f EXCEPT !.y = f.y + 1, !.mo = 1, !.d = 1]

\* the wall clock f moved by delta minutes, |delta| < 1440
AddMinutes(f, delta) ==
    LET m == f.h * 60 + f.mi + delta
        g == IF m < 0 THEN PrevDay(f) ELSE IF m >= 1440 THEN NextDay(f) ELSE f
        n == (m + 1440) % 1440
    IN  [g EXCEPT !.h = n \div 60, !.mi = n % 60]

\* dt.astimezone(tzutc()): a naive dt is taken to be in the machine's local zone
astimezone(dt) ==
    LET off == IF dt.tz.k = "naive" THEN tzlocal ELSE dt.tz.min
        f == AddMinutes(dt.v, 0 - off)
    IN  IF f.y < 1 \/ f.y > 9999 THEN Raise("OverflowError")
        ELSE Datetime(f, tzutc)

\* s.replace("Z", "+00:00") on the text of a timestamp
ReplaceZ(text) ==
    IF text.form = "iso" /\ text.tz.k = "Z" THEN [text EXCEPT !.tz = Offset(0)]
    ELSE text

\* datetime.fromisoformat(text); a literal "Z" suffix is not an offset it reads
\* (Python up to 3.10), so the caller rewrites it first
fromisoformat(text) ==
    IF text.form # "iso" THEN Raise("ValueError")
    ELSE IF text.tz.k = "Z" THEN Raise("ValueError")
    ELSE IF ~ValidFields(text.f) THEN Raise("ValueError")
    ELSE Datetime(text.f, text.tz)

-----------------------------------------------------------------------------
(* script.py:11-26                                                         *)

\* to_dt_dict with hours and minutes read from each other's key
to_dt_dict_swapped(s) ==
    LET dd == Get(s, "dueDate", s)
    IN  IF ~IsDict(dd) THEN Raise("AttributeError")
        ELSE IF ~({"year", "month", "day"} \subseteq DOMAIN dd.v) THEN None
        ELSE LET t == Get(s, "dueTime", EmptyDict)
             IN  IF ~IsDict(t) THEN Raise("AttributeError")
                 ELSE LET hh == PyInt(Get(t, "minutes", Num(0)))
                          mm == PyInt(Get(t, "hours", Num(0)))
                          yy == PyInt(dd.v["year"])
                          mo == PyInt(dd.v["month"])
                          da == PyInt(dd.v["day"])
                      IN  IF IsRaise(hh) THEN hh
                          ELSE IF IsRaise(mm) THEN mm
                          ELSE IF IsRaise(yy) THEN yy
                          ELSE IF IsRaise(mo) THEN mo
                          ELSE IF IsRaise(da) THEN da
                          ELSE datetime(yy.v, mo.v, da.v, hh.v, mm.v, tzutc)

\* the structured branch, lines 21-25
to_dt_dict(s) ==
    LET dd == Get(s, "dueDate", s)
    IN  IF ~IsDict(dd) THEN Raise("AttributeError")        \* .keys()
        ELSE IF ~({"year", "month", "day"} \subseteq DOMAIN dd.v) THEN None
        ELSE LET t == Get(s, "dueTime", EmptyDict)
             IN  IF ~IsDict(t) THEN Raise("AttributeError") \* t.get
                 ELSE LET hh == PyInt(Get(t, "hours", Num(0)))
                          mm == PyInt(Get(t, "minutes", Num(0)))
                          yy == PyInt(dd.v["year"])
                          mo == PyInt(dd.v["month"])
                          da == PyInt(dd.v["day"])
                      IN  IF IsRaise(hh) THEN hh
                          ELSE IF IsRaise(mm) THEN mm
                          ELSE IF IsRaise(yy) THEN yy
                          ELSE IF IsRaise(mo) THEN mo
                          ELSE IF IsRaise(da) THEN da
                          ELSE datetime(yy.v, mo.v, da.v, hh.v, mm.v, tzutc)

\* to_dt_str with the offset dropped instead of converted
to_dt_str_keep_wall_clock(s) ==
    LET p == fromisoformat(ReplaceZ(s.v))
    IN  IF IsRaise(p) THEN None ELSE Datetime(p.v, tzutc)

\* the string branch, lines 15-20: every exception becomes None
to_dt_str(s) ==
    LET p == fromisoformat(ReplaceZ(s.v))
    IN  IF IsRaise(p) THEN None
        ELSE LET u == astimezone(p)
             IN  IF IsRaise(u) THEN None ELSE u

to_dt(s) ==
    IF s.ty = "None" THEN None
    ELSE IF s.ty = "str" THEN to_dt_str(s)
    ELSE IF s.ty = "dict" THEN to_dt_dict(s)
    ELSE None

-----------------------------------------------------------------------------
(* script.py:112-128                                                       *)

\* lines 122-127: the descriptor appended for the payload inner
Descriptor(inner) ==
    Dict([k \in {"id", "title", "link", "thumb"} |->
            CASE k = "id" -> Get(inner, "id", None)
              [] k = "title" -> Get(inner, "title", None)
              [] k = "link" -> Get(inner, "alternateLink", None)
              [] k = "thumb" -> Get(inner, "thumbnailUrl", None)])

\* AttachStep without the unwrapping of a double-nested driveFile
AttachStepNoUnwrap(out, att) ==
    IF ~IsDict(att) THEN Raise("AttributeError")
    ELSE LET g == Get(att, "driveFile", None)
             df == IF Truthy(g) THEN g ELSE EmptyDict
         IN  IF ~IsDict(df) THEN Raise("AttributeError")
             ELSE List(Append(out.v, Descriptor(df)))

\* lines 118-127, one turn of the loop: the list out after att, or the exception
AttachStep(out, att) ==
    IF ~IsDict(att) THEN Raise("AttributeError")               \* att.get
    ELSE LET g == Get(att, "driveFile", None)
             df == IF Truthy(g) THEN g ELSE EmptyDict           \* ... or {}
         IN  IF ~IsDict(df) THEN Raise("AttributeError")       \* df.get
             ELSE LET n == Get(df, "driveFile", None)
                      inner == IF IsDict(n) THEN n ELSE df
                  IN  IF IsDict(inner) THEN List(Append(out.v, Descriptor(inner)))
                      ELSE out

RECURSIVE AttachLoop(_, _, _)
\* lines 117-127: the for loop over x from entry i on, out the list so far
AttachLoop(x, i, out) ==
    IF i > Len(x) THEN out
    ELSE LET o == AttachStep(out, x[i])
         IN  IF IsRaise(o) THEN o ELSE AttachLoop(x, i + 1, o)

extract_attachments(row) ==
    LET x == Get(row, "assignmentSubmission.attachments", None)
    IN  IF ~IsList(x) THEN None
        ELSE LET out == AttachLoop(x.v, 1, List(<<>>))
             IN  IF IsRaise(out) THEN out
                 ELSE IF Truthy(out) THEN out ELSE None         \* out or None

-----------------------------------------------------------------------------
(* script.py:133-142                                                       *)

RECURSIVE PointsLoopTruthy(_, _, _)
\* PointsLoop testing the value of pointsEarned instead of the key
PointsLoopTruthy(hist, i, pts) ==
    IF i > Len(hist) THEN pts
    ELSE LET h == hist[i]
             gh == IF IsDict(h) THEN Get(h, "gradeHistory", None) ELSE None
         IN  IF IsDict(gh) /\ Truthy(Get(gh, "pointsEarned", None))
             THEN PointsLoopTruthy(hist, i + 1, gh.v["pointsEarned"])
             ELSE PointsLoopTruthy(hist, i + 1, pts)

RECURSIVE PointsLoop(_, _, _)
\* lines 138-141: the for loop over hist from entry i on, pts the value so far
PointsLoop(hist, i, pts) ==
    IF i > Len(hist) THEN pts
    ELSE LET h == hist[i]
             gh == IF IsDict(h) THEN Get(h, "gradeHistory", None) ELSE None
         IN  IF IsDict(gh) /\ "pointsEarned" \in DOMAIN gh.v
             THEN PointsLoop(hist, i + 1, gh.v["pointsEarned"])
             ELSE PointsLoop(hist, i + 1, pts)

pick_latest_points(hist) ==
    IF ~IsList(hist) \/ ~Truthy(hist) THEN None
    ELSE PointsLoop(hist.v, 1, None)

-----------------------------------------------------------------------------
(* The arguments the helpers are called with                               *)

MaxAtt == 2     \* longest attachments list
MaxHist == 3    \* longest submissionHistory list

\* the UTC offsets (minutes) the machine's local zone may have
LocalOffsets == {0, 120}

SeqsUpTo(S, n) == UNION {[1..k -> S] : k \in 0..n}

Fields(y, mo, d, h, mi, sec, us) ==
    [y |-> y, mo |-> mo, d |-> d, h |-> h, mi |-> mi, s |-> sec, us |-> us]

\* "2025-08-30T19:27:44.005Z" and its like: date, time, and a suffix that is
\* "Z", an offset "+hh:mm" / "-hh:mm", or nothing
IsoTexts ==
    {[form |-> "iso", f |-> Fields(y, md[1], md[2], hm[1], hm[2], su[1], su[2]), tz |-> tz] :
        y \in {2024, 2025},
        md \in {<<1, 1>>, <<2, 28>>, <<3, 1>>, <<8, 30>>, <<12, 31>>, <<2, 30>>, <<13, 1>>},
        hm \in {<<0, 0>>, <<19, 27>>, <<23, 30>>},
        su \in {<<0, 0>>, <<44, 5000>>},
        tz \in {[k |-> "Z"], Naive, Offset(120), Offset(0 - 300), Offset(330)}}

Texts == IsoTexts \cup {[form |-> "not-a-date"], [form |-> ""]}

\* the values of a dueDate entry
DueDates ==
    { None, Str([form |-> "not-a-date"]),
      EmptyDict,
      Dict([k \in {"year", "month"} |-> IF k = "year" THEN Num(2025) ELSE Num(9)]) }
    \cup { Dict([k \in {"year", "month", "day"} |->
                    CASE k = "year" -> y [] k = "month" -> mo [] k = "day" -> d]) :
            y \in {Num(2025), None}, mo \in {Num(9), Num(2), Num(13)}, d \in {Num(1), Num(30)} }

\* the values of a dueTime entry
DueTimes ==
    { None, EmptyDict,
      Dict([k \in {"hours"} |-> Num(14)]),
      Dict([k \in {"minutes"} |-> Num(30)]),
      Dict([k \in {"hours"} |-> None]),
      Dict([k \in {"hours"} |-> Num(25)]) }
    \cup { Dict([k \in {"hours", "minutes"} |-> IF k = "hours" THEN h ELSE m]) :
            h \in {Num(14), Num(0)}, m \in {Num(30), Num(59)} }

\* {"dueDate": .., "dueTime": ..} with either key possibly left out, and the
\* bare date {"year": .., "month": .., "day": ..} with or without a dueTime
DueDicts ==
    { Dict([k \in {"dueDate", "dueTime"} |-> IF k = "dueDate" THEN dd ELSE t]) :
        dd \in DueDates, t \in DueTimes }
    \cup { Dict([k \in {"dueDate"} |-> dd]) : dd \in DueDates }
    \cup { Dict([k \in {"dueTime"} |-> t]) : t \in DueTimes }
    \cup { dd \in DueDates : IsDict(dd) }
    \cup { Dict([k \in DOMAIN dd.v \cup {"dueTime"} |->
                    IF k = "dueTime" THEN t ELSE dd.v[k]]) :
            dd \in {x \in DueDates : IsDict(x)}, t \in DueTimes }

DtArgs ==
    {None, NaN, Num(5), List(<<>>)} \cup {Str(t) : t \in Texts} \cup DueDicts

Payload(id) ==
    Dict([k \in {"id", "title", "alternateLink", "thumbnailUrl"} |->
            CASE k = "id" -> Str(id) [] k = "title" -> Str("t")
              [] k = "alternateLink" -> Str("l") [] k = "thumbnailUrl" -> Str("th")])

\* the entries of an attachments list
AttEntries ==
    { Dict([k \in {"driveFile"} |-> Payload("a1")]),
      Dict([k \in {"driveFile"} |-> Dict([j \in {"id"} |-> Str("a2")])]),
      Dict([k \in {"driveFile"} |-> Dict([j \in {"driveFile"} |-> Payload("a3")])]),
      Dict([k \in {"driveFile"} |-> Dict([j \in {"driveFile"} |-> EmptyDict])]),
      Dict([k \in {"link"} |-> Dict([j \in {"url"} |-> Str("u")])]),
      Dict([k \in {"driveFile"} |-> EmptyDict]),
      Dict([k \in {"driveFile"} |-> None]),
      Dict([k \in {"driveFile"} |-> Str("s")]),
      Str("x") }

\* the rows extract_attachments is applied to
AttRows ==
    {EmptyDict}
    \cup { Dict([k \in {"assignmentSubmission.attachments"} |-> x]) :
            x \in {None, NaN, Str("abc")} \cup {List(q) : q \in SeqsUpTo(AttEntries, MaxAtt)} }

Grade(k, p) == Dict([j \in {"gradeHistory"} |-> Dict([i \in {k} |-> p])])

\* the entries of a submissionHistory list
HistEntries ==
    { Grade("pointsEarned", Num(5)), Grade("pointsEarned", Num(9)),
      Grade("pointsEarned", Num(0)), Grade("pointsEarned", None),
      Grade("other", Num(1)),
      Dict([j \in {"stateHistory"} |-> Dict([i \in {"state"} |-> Str("CREATED")])]),
      Dict([j \in {"gradeHistory"} |-> None]),
      Str("x") }

HistArgs ==
    {None, NaN, Str("abc")} \cup {List(q) : q \in SeqsUpTo(HistEntries, MaxHist)}

-----------------------------------------------------------------------------
(* pandas: DataFrame and json_normalize as script.py:47-98 uses them       *)

\* a DataFrame: its column labels and its rows, each a function on the labels
Frame(cols, rows) == [ty |-> "df", cols |-> cols, rows |-> rows]
IsFrame(x) == x.ty = "df"

RECURSIVE FlatPairs(_, _)
\* the <<label, value>> pairs of dict d with nested dicts spelled out as
\* "outer.inner"; a nested dict that is empty leaves no label
FlatPairs(d, prefix) ==
    UNION { LET name == IF prefix = "" THEN k ELSE prefix \o "." \o k
            IN  IF IsDict(d.v[k]) THEN FlatPairs(d.v[k], name)
                ELSE {<<name, d.v[k]>>} : k \in DOMAIN d.v }

nested_to_record(d) ==
    LET P == FlatPairs(d, "")
    IN  [n \in {p[1] : p \in P} |-> (CHOOSE p \in P : p[1] = n)[2]]

\* DataFrame(records): the labels of all records, NaN where a record has none
DataFrame(records) ==
    LET cols == UNION {DOMAIN records[i] : i \in 1..Len(records)}
    IN  Frame(cols, [i \in 1..Len(records) |->
                        [c \in cols |-> IF c \in DOMAIN records[i] THEN records[i][c]
                                        ELSE NaN]])

RECURSIVE PullField(_, _, _)
\* _pull_field(js, spec): js[spec[1]][spec[2]]...; a missing key is KeyError,
\* or NaN under errors="ignore"
PullField(js, spec, errors) ==
    IF Len(spec) = 0 THEN js
    ELSE IF js.ty = "None" THEN (IF errors = "ignore" THEN NaN ELSE Raise("KeyError"))
    ELSE IF ~IsDict(js) THEN Raise("TypeError")
    ELSE IF Head(spec) \notin DOMAIN js.v
         THEN (IF errors = "ignore" THEN NaN ELSE Raise("KeyError"))
    ELSE PullField(js.v[Head(spec)], Tail(spec), errors)

\* _pull_records(js, key): the list under key; the key must be there, whatever
\* errors says; null counts as the empty list
PullRecords(js, key) ==
    IF ~IsDict(js) THEN Raise("TypeError")
    ELSE IF key \notin DOMAIN js.v THEN Raise("KeyError")
    ELSE IF js.v[key].ty \in {"None", "float"} THEN List(<<>>)
    ELSE IF ~IsList(js.v[key]) THEN Raise("TypeError")
    ELSE js.v[key]

RECURSIVE Join(_)
\* sep.join(path) with sep = "."
Join(path) ==
    IF Len(path) = 1 THEN path[1] ELSE path[1] \o "." \o Join(Tail(path))

\* the meta columns of the records of obj, met at depth level of the record path
MetaCells(obj, meta, level, seen, errors) ==
    [i \in 1..Len(meta) |->
        IF level + 1 > Len(meta[i]) THEN seen[i]
        ELSE PullField(obj, SubSeq(meta[i], level + 1, Len(meta[i])), errors)]

\* the rows of one object at the last step of the record path: its records
\* flattened, each with the meta columns of the object
LeafRows(obj, key, meta, level, seen, errors) ==
    LET recs == PullRecords(obj, key)
        cells == MetaCells(obj, meta, level, seen, errors)
        bad == {i \in 1..Len(meta) : IsRaise(cells[i])}
    IN  IF IsRaise(recs) THEN recs
        ELSE IF bad # {} THEN cells[CHOOSE i \in bad : \A j \in bad : i <= j]
        ELSE IF \E r \in 1..Len(recs.v), i \in 1..Len(meta) :
                    Join(meta[i]) \in DOMAIN nested_to_record(recs.v[r])
             THEN Raise("ValueError")            \* conflicting metadata name
        ELSE List([r \in 1..Len(recs.v) |->
                LET flatrec == nested_to_record(recs.v[r])
                IN  [c \in DOMAIN flatrec \cup {Join(meta[i]) : i \in 1..Len(meta)} |->
                        IF \E i \in 1..Len(meta) : Join(meta[i]) = c
                        THEN cells[CHOOSE i \in 1..Len(meta) : Join(meta[i]) = c]
                        ELSE flatrec[c]]])

RECURSIVE Extract(_, _, _, _, _, _, _)
\* _recursive_extract over data from object i on: the rows so far, then those
\* of data[i], then the rest; the first exception ends it
Extract(data, i, path, meta, level, seen, errors) ==
    IF i > Len(data) THEN List(<<>>)
    ELSE LET obj == data[i]
             here ==
               IF Len(path) = 1 THEN LeafRows(obj, path[1], meta, level, seen, errors)
               ELSE IF ~IsDict(obj) THEN Raise("TypeError")
               ELSE IF path[1] \notin DOMAIN obj.v THEN Raise("KeyError")   \* obj[path[0]]
               ELSE LET sub == obj.v[path[1]]
                        seen2 == [j \in 1..Len(meta) |->
                                    IF level + 1 = Len(meta[j])
                                    THEN PullField(obj, <<meta[j][Len(meta[j])]>>, errors)
                                    ELSE seen[j]]
                    IN  IF \E j \in 1..Len(meta) : IsRaise(seen2[j]) THEN Raise("KeyError")
                        ELSE IF IsDict(sub)
                             THEN Extract(<<sub>>, 1, Tail(path), meta, level + 1, seen2, errors)
                        ELSE IF IsList(sub)
                             THEN Extract(sub.v, 1, Tail(path), meta, level + 1, seen2, errors)
                        ELSE Raise("TypeError")
         IN  IF IsRaise(here) THEN here
             ELSE LET rest == Extract(data, i + 1, path, meta, level, seen, errors)
                  IN  IF IsRaise(rest) THEN rest ELSE List(here.v \o rest.v)

\* pd.json_normalize(data, record_path=path, meta=meta, sep=".", errors=errors)
json_normalize(data, path, meta, errors) ==
    LET rows == Extract(data, 1, path, meta, 0, [j \in 1..Len(meta) |-> None], errors)
    IN  IF IsRaise(rows) THEN rows
        ELSE IF Len(rows.v) = 0 THEN Frame({Join(meta[j]) : j \in 1..Len(meta)}, <<>>)
        ELSE DataFrame(rows.v)

\* pd.json_normalize(data) without a record path: every object flattened
json_normalize_flat(data) ==
    DataFrame([i \in 1..Len(data) |->
                 IF IsDict(data[i]) THEN nested_to_record(data[i])
                 ELSE [k \in {} |-> None]])

\* df.rename(columns=m); the snapshot's records carry none of the new labels
rename(df, m) ==
    LET new(c) == IF c \in DOMAIN m THEN m[c] ELSE c
    IN  Frame({new(c) : c \in df.cols},
              [i \in 1..Len(df.rows) |->
                  [n \in {new(c) : c \in df.cols} |->
                      df.rows[i][CHOOSE c \in df.cols : new(c) = n]]])

\* row.get(label, None) on a row of df
RowGet(df, i, label) == IF label \in df.cols THEN df.rows[i][label] ELSE None

\* df[label] = vals, one value per row; the first exception among them is
\* raised instead
WithColumn(df, label, vals) ==
    LET bad == {i \in 1..Len(vals) : IsRaise(vals[i])}
    IN  IF bad # {} THEN vals[CHOOSE i \in bad : \A j \in bad : i <= j]
        ELSE Frame(df.cols \cup {label},
                   [i \in 1..Len(df.rows) |->
                       [c \in df.cols \cup {label} |->
                           IF c = label THEN vals[i] ELSE df.rows[i][c]]])

\* df[label].map(to_dt)
MapToDt(df, label) == [i \in 1..Len(df.rows) |-> to_dt(df.rows[i][label])]

-----------------------------------------------------------------------------
(* script.py:43-153, one statement group at a time.  The groups up to line   *)
(* 104 read only courses_raw, so each is evaluated on it in program order; a *)
(* group that raises leaves its DataFrame as it was and its exception in     *)
(* raised; the groups of lines 107-153 work on submissions_df.  Python       *)
(* stops at the first exception: the run of the script is the prefix of the  *)
(* groups up to StoppedAt.                                                   *)

Unset == [ty |-> "unset"]

Groups == <<"courses", "students", "teachers", "assignments", "due", "submissions",
            "timestamps", "attachments", "points", "late", "keep">>

GroupSet == {Groups[i] : i \in 1..Len(Groups)}

NoException == [g \in GroupSet |-> ""]

\* first_run before any run has ended
NoRun == [ty |-> "norun"]

\* the group after g, "done" after the last
After(g) ==
    LET i == CHOOSE j \in 1..Len(Groups) : Groups[j] = g
    IN  IF i = Len(Groups) THEN "done" ELSE Groups[i + 1]

\* the group whose exception ends the run, "" when none of those evaluated raised
StoppedAt ==
    LET bad == {i \in 1..Len(Groups) : raised[Groups[i]] # ""}
    IN  IF bad = {} THEN "" ELSE Groups[CHOOSE i \in bad : \A j \in bad : i <= j]

\* lines 47-51
Courses(raw) ==
    LET d1 == json_normalize_flat(raw)
    IN  IF "course_info" \notin d1.cols THEN Raise("KeyError")      \* line 48
        ELSE LET d2 == rename(json_normalize_flat(
                                 [i \in 1..Len(d1.rows) |-> d1.rows[i]["course_info"]]),
                              [id |-> "courseId"])
             IN  IF "creationTime" \notin d2.cols \/ "updateTime" \notin d2.cols
                 THEN Raise("KeyError")                             \* lines 50, 51
                 ELSE LET d3 == WithColumn(d2, "creationTime", MapToDt(d2, "creationTime"))
                      IN  WithColumn(d3, "updateTime", MapToDt(d3, "updateTime"))

\* lines 54-60
Students(raw) ==
    LET d == json_normalize(raw, <<"students">>, << <<"course_info", "id">> >>, "raise")
    IN  IF IsRaise(d) THEN d ELSE rename(d, [x \in {"course_info.id"} |-> "courseId"])

\* lines 63-69
Teachers(raw) ==
    LET d == json_normalize(raw, <<"teachers">>, << <<"course_info", "id">> >>, "raise")
    IN  IF IsRaise(d) THEN d ELSE rename(d, [x \in {"course_info.id"} |-> "courseId"])

\* lines 72-78
Assignments(raw) ==
    LET d == json_normalize(raw, <<"assignments">>, << <<"course_info", "id">> >>, "raise")
    IN  IF IsRaise(d) THEN d
        ELSE rename(d, [x \in {"course_info.id", "id"} |->
                          IF x = "id" THEN "assignmentId" ELSE "courseId"])

\* line 82: what the lambda hands to to_dt for row i
DueArg(df, i) ==
    Dict([k \in {"dueDate", "dueTime"} |->
            IF k = "dueDate" THEN RowGet(df, i, "dueDate") ELSE RowGet(df, i, "dueTime")])

\* lines 81-85 on the assignments frame
Due(df) ==
    LET d1 == WithColumn(df, "dueDateTime",
                         [i \in 1..Len(df.rows) |-> to_dt(DueArg(df, i))])
    IN  IF IsRaise(d1) THEN d1
        ELSE IF "creationTime" \notin d1.cols \/ "updateTime" \notin d1.cols
             THEN Raise("KeyError")                                 \* lines 84, 85
        ELSE LET d2 == WithColumn(d1, "creationTime", MapToDt(d1, "creationTime"))
             IN  WithColumn(d2, "updateTime", MapToDt(d2, "updateTime"))

\* lines 88-104
Submissions(raw) ==
    LET d == json_normalize(raw, <<"assignments", "submissions">>,
                            << <<"course_info", "id">>, <<"assignments", "id">>,
                               <<"assignments", "title">> >>, "ignore")
    IN  IF IsRaise(d) THEN d
        ELSE rename(d, [x \in {"course_info.id", "assignments.id", "assignments.title", "id"} |->
                          CASE x = "course_info.id" -> "courseId"
                            [] x = "assignments.id" -> "assignmentId"
                            [] x = "assignments.title" -> "assignmentTitle"
                            [] x = "id" -> "submissionId"])

\* lines 107-109: for col in ("creationTime", "updateTime"): if col in df ...
ParseTimestamps(df) ==
    LET d1 == IF "creationTime" \in df.cols
              THEN WithColumn(df, "creationTime", MapToDt(df, "creationTime")) ELSE df
    IN  IF "updateTime" \in d1.cols
        THEN WithColumn(d1, "updateTime", MapToDt(d1, "updateTime")) ELSE d1

\* line 130: df.apply(extract_attachments, axis=1)
Attachments(df) ==
    WithColumn(df, "attachments",
               [i \in 1..Len(df.rows) |-> extract_attachments(Dict(df.rows[i]))])

\* line 144
LatestPoints(df) ==
    IF "submissionHistory" \notin df.cols THEN Raise("KeyError")
    ELSE WithColumn(df, "pointsEarned_latest",
                    [i \in 1..Len(df.rows) |->
                        pick_latest_points(df.rows[i]["submissionHistory"])])

\* Series.fillna(False): NaN and None become False
fillna(x) == IF x.ty \in {"None", "float"} THEN Bool(FALSE) ELSE x

\* line 145: df.get("late", False) is the column, or the bool False, which has
\* no fillna
Late(df) ==
    IF "late" \notin df.cols THEN Raise("AttributeError")
    ELSE WithColumn(df, "late", [i \in 1..Len(df.rows) |-> fillna(df.rows[i]["late"])])

\* lines 148-152
keep_sub_cols ==
    <<"submissionId", "courseId", "assignmentId", "assignmentTitle", "userId",
      "state", "creationTime", "updateTime", "late", "draftGrade",
      "pointsEarned_latest", "attachments", "alternateLink">>

\* Keep keeping every column of the frame
KeepEveryColumn(df) ==
    Frame(df.cols, [i \in 1..Len(df.rows) |-> [c \in df.cols |-> df.rows[i][c]]])

\* line 153: df[[c for c in keep_sub_cols if c in df.columns]]
Keep(df) ==
    LET cols == {keep_sub_cols[i] : i \in 1..Len(keep_sub_cols)} \cap df.cols
    IN  Frame(cols, [i \in 1..Len(df.rows) |-> [c \in cols |-> df.rows[i][c]]])


-----------------------------------------------------------------------------
(* The load stage and the fetcher before they have done anything           *)

Collections == {"courses", "students", "teachers", "assignments", "submissions"}

\* lines 156-164: the collections of a fresh database
EmptyStore == [c \in Collections |-> <<>>]

\* docs before any run has reached the load stage
NoDocs == [c \in Collections |-> Unset]

\* loaded: per collection the key tuples upserted so far, and the frames and
\* the resulting store of the last run but one
NoHistory == [keys |-> [c \in Collections |-> {}], docs |-> NoDocs, after |-> EmptyStore]

LoaderIdle ==
    /\ store = EmptyStore
    /\ docs = NoDocs
    /\ load_pc = "idle"
    /\ loaded = NoHistory

PoolIdle ==
    /\ assignments = <<>>
    /\ futures = <<>>
    /\ completion = <<>>
    /\ to_yield = <<>>
    /\ early = {}
    /\ updated_assignments = <<>>
    /\ fetch_pc = "idle"

\* line 35-36 before _authenticate; on a machine without the two files
AuthIdle ==
    /\ credentials_file = FALSE
    /\ token_file = [ty |-> "nofile"]
    /\ creds = None
    /\ self_creds = None
    /\ service = None
    /\ clock = 0
    /\ auth_pc = "idle"

PagerIdle ==
    /\ paged_call = [fn |-> "none", pages |-> <<>>]
    /\ results = None
    /\ items = <<>>
    /\ requests = 0
    /\ ret = None
    /\ page_pc = "idle"

OthersIdle == LoaderIdle /\ PoolIdle /\ AuthIdle /\ PagerIdle

-----------------------------------------------------------------------------
(* The helpers, called                                                     *)

NoCall == [fn |-> "none", arg |-> None, ret |-> None]

flat == <<courses_raw, courses_df, students_df, teachers_df, assignments_df,
          submissions_df, pc, raised, first_run>>

Call_to_dt ==
    /\ call = NoCall
    /\ \E s \in DtArgs : call' = [fn |-> "to_dt", arg |-> s, ret |-> to_dt(s)]
    /\ UNCHANGED <<tzlocal, flat, others>>

Call_extract_attachments ==
    /\ call = NoCall
    /\ \E row \in AttRows :
          call' = [fn |-> "extract_attachments", arg |-> row,
                   ret |-> extract_attachments(row)]
    /\ UNCHANGED <<tzlocal, flat, others>>

Call_pick_latest_points ==
    /\ call = NoCall
    /\ \E hist \in HistArgs :
          call' = [fn |-> "pick_latest_points", arg |-> hist,
                   ret |-> pick_latest_points(hist)]
    /\ UNCHANGED <<tzlocal, flat, others>>

InitHelpers ==
    /\ call = NoCall
    /\ tzlocal \in LocalOffsets
    /\ courses_raw = <<>>
    /\ courses_df = Unset /\ students_df = Unset /\ teachers_df = Unset
    /\ assignments_df = Unset /\ submissions_df = Unset
    /\ pc = "idle"
    /\ raised = NoException
    /\ first_run = NoRun
    /\ OthersIdle

NextHelpers ==
    \/ Call_to_dt
    \/ Call_extract_attachments
    \/ Call_pick_latest_points

SpecHelpers == InitHelpers /\ [][NextHelpers]_vars

-----------------------------------------------------------------------------
(* The snapshots script.py is run on                                       *)

MaxCourses == 2   \* most course blocks in a snapshot
MaxRoster == 2    \* most students, and most teachers, of a course
MaxAssign == 2    \* most assignments of a course
MaxSubs == 2      \* most submissions of an assignment

Absent == 0 - 1   \* in place of a length: the block has no such key

Stamp == Str([form |-> "iso", f |-> Fields(2025, 8, 30, 19, 27, 44, 5000), tz |-> [k |-> "Z"]])

CourseInfo(c) ==
    Dict([k \in {"id", "name", "creationTime", "updateTime"} |->
            CASE k = "id" -> Num(100 + c) [] k = "name" -> Str("course")
              [] OTHER -> Stamp])

\* a roster entry: students and teachers have the same fields
Member(c, i) ==
    Dict([k \in {"userId", "profile"} |->
            IF k = "userId" THEN Num(10 * c + i)
            ELSE Dict([j \in {"id", "emailAddress"} |->
                         IF j = "id" THEN Num(10 * c + i) ELSE Str("mail")])])

Submission(c, j, n) ==
    Dict([k \in {"id", "userId", "state", "creationTime", "updateTime"} |->
            CASE k = "id" -> Num(3000 + 100 * c + 10 * j + n)
              [] k = "userId" -> Num(10 * c + n)
              [] k = "state" -> Str("TURNED_IN")
              [] OTHER -> Stamp])

\* the j-th assignment of course c with nsub submissions; the first assignment
\* of a course has a due date, the others have none
Assignment(c, j, nsub) ==
    Dict([k \in {"id", "title", "creationTime", "updateTime"}
                 \cup (IF j = 1 THEN {"dueDate", "dueTime"} ELSE {})
                 \cup (IF nsub = Absent THEN {} ELSE {"submissions"}) |->
            CASE k = "id" -> Num(200 + 10 * c + j)
              [] k = "title" -> Str("homework")
              [] k = "dueDate" -> Dict([x \in {"year", "month", "day"} |->
                                          CASE x = "year" -> Num(2025) [] x = "month" -> Num(9)
                                            [] x = "day" -> Num(1)])
              [] k = "dueTime" -> Dict([x \in {"hours", "minutes"} |->
                                          IF x = "hours" THEN Num(14) ELSE Num(30)])
              [] k = "submissions" -> List([n \in 1..nsub |-> Submission(c, j, n)])
              [] OTHER -> Stamp])

\* what a block holds: the lengths of its rosters and, per assignment, of its
\* submissions, Absent where the key is left out
Shapes ==
    [ns : Absent..MaxRoster, nt : Absent..MaxRoster,
     as : {[has |-> FALSE, subs |-> <<>>]}
           \cup {[has |-> TRUE, subs |-> q] : q \in SeqsUpTo(Absent..MaxSubs, MaxAssign)}]

FullShape ==
    [ns |-> MaxRoster, nt |-> MaxRoster,
     as |-> [has |-> TRUE, subs |-> [j \in 1..MaxAssign |-> MaxSubs]]]

CourseBlock(c, sh) ==
    Dict([k \in {"course_info"}
                 \cup (IF sh.ns = Absent THEN {} ELSE {"students"})
                 \cup (IF sh.nt = Absent THEN {} ELSE {"teachers"})
                 \cup (IF sh.as.has THEN {"assignments"} ELSE {}) |->
            CASE k = "course_info" -> CourseInfo(c)
              [] k = "students" -> List([i \in 1..sh.ns |-> Member(c, i)])
              [] k = "teachers" -> List([i \in 1..sh.nt |-> Member(c, i)])
              [] k = "assignments" ->
                    List([j \in 1..Len(sh.as.subs) |-> Assignment(c, j, sh.as.subs[j])])])

\* the snapshots: up to MaxCourses blocks, all of the full shape but at most one
Snapshots ==
    {<<>>} \cup
    { [c \in 1..n |-> CourseBlock(c, IF c = d THEN sh ELSE FullShape)] :
        n \in 1..MaxCourses, d \in 1..MaxCourses, sh \in Shapes }

-----------------------------------------------------------------------------
(* The script, run                                                         *)

\* group g has evaluated to r: a frame, or an exception
Evaluated(g, r) ==
    /\ raised' = [raised EXCEPT ![g] = IF IsRaise(r) THEN r.v ELSE ""]
    /\ pc' = After(g)

BuildCourses ==
    /\ pc = "courses"
    /\ LET r == Courses(courses_raw)
       IN  /\ courses_df' = IF IsRaise(r) THEN Unset ELSE r
           /\ Evaluated("courses", r)
    /\ UNCHANGED <<others, call, tzlocal, first_run, courses_raw, students_df, teachers_df,
                   assignments_df, submissions_df>>

BuildStudents ==
    /\ pc = "students"
    /\ LET r == Students(courses_raw)
       IN  /\ students_df' = IF IsRaise(r) THEN Unset ELSE r
           /\ Evaluated("students", r)
    /\ UNCHANGED <<others, call, tzlocal, first_run, courses_raw, courses_df, teachers_df,
                   assignments_df, submissions_df>>

BuildTeachers ==
    /\ pc = "teachers"
    /\ LET r == Teachers(courses_raw)
       IN  /\ teachers_df' = IF IsRaise(r) THEN Unset ELSE r
           /\ Evaluated("teachers", r)
    /\ UNCHANGED <<others, call, tzlocal, first_run, courses_raw, courses_df, students_df,
                   assignments_df, submissions_df>>

BuildAssignments ==
    /\ pc = "assignments"
    /\ LET r == Assignments(courses_raw)
       IN  /\ assignments_df' = IF IsRaise(r) THEN Unset ELSE r
           /\ Evaluated("assignments", r)
    /\ UNCHANGED <<others, call, tzlocal, first_run, courses_raw, courses_df, students_df,
                   teachers_df, submissions_df>>

\* lines 81-85 need the frame of lines 72-78; a raise leaves it as it was
UnifyDue ==
    /\ pc = "due"
    /\ IF IsFrame(assignments_df)
       THEN LET r == Due(assignments_df)
            IN  /\ assignments_df' = IF IsRaise(r) THEN assignments_df ELSE r
                /\ Evaluated("due", r)
       ELSE /\ pc' = After("due")
            /\ UNCHANGED <<assignments_df, raised>>
    /\ UNCHANGED <<others, call, tzlocal, first_run, courses_raw, courses_df, students_df,
                   teachers_df, submissions_df>>

BuildSubmissions ==
    /\ pc = "submissions"
    /\ LET r == Submissions(courses_raw)
       IN  /\ submissions_df' = IF IsRaise(r) THEN Unset ELSE r
           /\ Evaluated("submissions", r)
    /\ UNCHANGED <<others, call, tzlocal, first_run, courses_raw, courses_df, students_df,
                   teachers_df, assignments_df>>

\* a statement of lines 107-153 has evaluated to r on submissions_df; without
\* that frame (lines 88-104 raised) there is nothing to evaluate
Finish(g, r) ==
    /\ IF IsFrame(submissions_df)
       THEN /\ submissions_df' = IF IsRaise(r) THEN submissions_df ELSE r
            /\ Evaluated(g, r)
       ELSE /\ pc' = After(g)
            /\ UNCHANGED <<submissions_df, raised>>
    /\ UNCHANGED <<others, call, tzlocal, first_run, courses_raw, courses_df, students_df,
                   teachers_df, assignments_df>>

MapTimestamps ==
    /\ pc = "timestamps"
    /\ Finish("timestamps", ParseTimestamps(submissions_df))

ApplyAttachments ==
    /\ pc = "attachments"
    /\ Finish("attachments", Attachments(submissions_df))

MapLatestPoints ==
    /\ pc = "points"
    /\ Finish("points", LatestPoints(submissions_df))

FillLate ==
    /\ pc = "late"
    /\ Finish("late", Late(submissions_df))

KeepColumns ==
    /\ pc = "keep"
    /\ Finish("keep", Keep(submissions_df))

Init ==
    /\ call = NoCall
    /\ tzlocal \in LocalOffsets
    /\ courses_raw \in Snapshots
    /\ courses_df = Unset /\ students_df = Unset /\ teachers_df = Unset
    /\ assignments_df = Unset /\ submissions_df = Unset
    /\ pc = "courses"
    /\ raised = NoException
    /\ first_run = NoRun
    /\ OthersIdle

Next ==
    \/ BuildCourses
    \/ BuildStudents
    \/ BuildTeachers
    \/ BuildAssignments
    \/ UnifyDue
    \/ BuildSubmissions
    \/ MapTimestamps
    \/ ApplyAttachments
    \/ MapLatestPoints
    \/ FillLate
    \/ KeepColumns

Spec == Init /\ [][Next]_vars

-----------------------------------------------------------------------------
(* script.py run on snapshots whose submissions differ in their fields, and  *)
(* run again on the same file                                                *)

\* a timestamp without "Z" or offset
NaiveStamp == Str([form |-> "iso", f |-> Fields(2025, 8, 30, 19, 27, 44, 5000), tz |-> Naive])

\* dict d with the entries of the function extra added or replaced
With(d, extra) ==
    Dict([k \in DOMAIN d.v \cup DOMAIN extra |->
            IF k \in DOMAIN extra THEN extra[k] ELSE d.v[k]])

\* what a submission holds: late ("absent", or the boolean's name), rich (it has a
\* submissionHistory, attachments and other fields of the API), naive (its
\* creationTime has no zone marker)
SubVariants ==
    [late : {"absent", "true", "false"}, rich : {TRUE}, naive : BOOLEAN]
    \cup {[late |-> "absent", rich |-> FALSE, naive |-> FALSE]}

FieldSubmission(c, n, v) ==
    LET base == Submission(c, 1, n)
        l == IF v.late = "absent" THEN base
             ELSE With(base, [k \in {"late"} |-> Bool(v.late = "true")])
        r == IF ~v.rich THEN l
             ELSE With(l, [k \in {"submissionHistory", "assignmentSubmission",
                                  "courseWorkType", "alternateLink"} |->
                      CASE k = "submissionHistory" ->
                             List(<<Grade("pointsEarned", Num(5)), Grade("pointsEarned", Num(9))>>)
                        [] k = "assignmentSubmission" ->
                             Dict([j \in {"attachments"} |->
                                     List(<<Dict([i \in {"driveFile"} |-> Payload("a1")])>>)])
                        [] k = "courseWorkType" -> Str("ASSIGNMENT")
                        [] k = "alternateLink" -> Str("l")])
    IN  IF v.naive THEN With(r, [k \in {"creationTime"} |-> NaiveStamp]) ELSE r

\* block c: one student, one teacher, one assignment with the submissions vs;
\* ci tells whether the block has its course_info
FieldBlock(c, ci, vs) ==
    Dict([k \in {"students", "teachers", "assignments"}
                 \cup (IF ci THEN {"course_info"} ELSE {}) |->
            CASE k = "course_info" -> CourseInfo(c)
              [] k = "students" -> List(<<Member(c, 1)>>)
              [] k = "teachers" -> List(<<Member(c, 2)>>)
              [] k = "assignments" ->
                    List(<<With(Assignment(c, 2, 0),
                                [j \in {"submissions"} |->
                                    List([n \in 1..Len(vs) |-> FieldSubmission(c, n, vs[n])])])>>)])

PlainVariant == [late |-> "absent", rich |-> FALSE, naive |-> FALSE]

\* one block of any kind, alone or followed by a block with its course_info
FieldSnapshots ==
    { <<FieldBlock(1, ci, vs)>> : ci \in BOOLEAN, vs \in SeqsUpTo(SubVariants, MaxSubs) }
    \cup { <<FieldBlock(1, ci, vs), FieldBlock(2, TRUE, <<PlainVariant>>)>> :
             ci \in BOOLEAN, vs \in SeqsUpTo(SubVariants, MaxSubs) }

Frames == <<courses_df, students_df, teachers_df, assignments_df, submissions_df>>

\* the script has ended; it is run once more on the same file, on a machine
\* whose local zone is any of LocalOffsets
RunAgain ==
    /\ pc = "done"
    /\ first_run = NoRun
    /\ first_run' = Frames
    /\ tzlocal' \in LocalOffsets
    /\ pc' = "courses"
    /\ raised' = NoException
    /\ courses_df' = Unset /\ students_df' = Unset /\ teachers_df' = Unset
    /\ assignments_df' = Unset /\ submissions_df' = Unset
    /\ UNCHANGED <<call, courses_raw, others>>

InitFields ==
    /\ call = NoCall
    /\ tzlocal \in LocalOffsets
    /\ courses_raw \in FieldSnapshots
    /\ courses_df = Unset /\ students_df = Unset /\ teachers_df = Unset
    /\ assignments_df = Unset /\ submissions_df = Unset
    /\ pc = "courses"
    /\ raised = NoException
    /\ first_run = NoRun
    /\ OthersIdle

NextFields ==
    \/ Next
    \/ RunAgain

SpecFields == InitFields /\ [][NextFields]_vars

-----------------------------------------------------------------------------
(* script.py:156-187, the load stage                                       *)

\* lines 28-32: no documents of an empty frame, else its rows with NaN as None
df_to_docs(df) ==
    IF ~IsFrame(df) \/ Len(df.rows) = 0 THEN <<>>
    ELSE [i \in 1..Len(df.rows) |->
            [c \in df.cols |-> IF df.rows[i][c] = NaN THEN None ELSE df.rows[i][c]]]

\* a stored document matches the filter: equal on every field of it, null
\* standing also for a field the document does not have
Matches(doc, filt) ==
    \A k \in DOMAIN filt :
        \/ k \in DOMAIN doc /\ doc[k] = filt[k]
        \/ k \notin DOMAIN doc /\ filt[k] = None

\* UpdateOne inserting the document whatever the collection holds
UpdateOneAlwaysInsert(coll, filt, d) ==
    Append(coll, [k \in DOMAIN filt \cup DOMAIN d |-> IF k \in DOMAIN d THEN d[k] ELSE filt[k]])

\* line 180, UpdateOne(filt, {"$set": d}, upsert=True) applied to a collection:
\* the first document matching filt gets the fields of d; when none matches,
\* a document with the fields of filt and of d is inserted
UpdateOne(coll, filt, d) ==
    LET hits == {i \in 1..Len(coll) : Matches(coll[i], filt)}
    IN  IF hits = {}
        THEN Append(coll, [k \in DOMAIN filt \cup DOMAIN d |->
                              IF k \in DOMAIN d THEN d[k] ELSE filt[k]])
        ELSE LET i == CHOOSE j \in hits : \A h \in hits : j <= h
             IN  [coll EXCEPT ![i] = [k \in DOMAIN coll[i] \cup DOMAIN d |->
                                         IF k \in DOMAIN d THEN d[k] ELSE coll[i][k]]]

RECURSIVE BulkWrite(_, _, _)
\* the operations ops applied one after the other from the i-th on
BulkWrite(coll, ops, i) ==
    IF i > Len(ops) THEN coll
    ELSE BulkWrite(UpdateOne(coll, ops[i].filt, ops[i].set), ops, i + 1)

\* the orders an unordered bulk write may take n operations in
Orders(n) == {f \in [1..n -> 1..n] : \A i, j \in 1..n : f[i] = f[j] => i = j}

\* line 179: filt = {k: d[k] for k in key_fields} raises KeyError when a
\* document has no such field
upsert_raises(df, key_fields) ==
    \E i \in 1..Len(df_to_docs(df)), j \in 1..Len(key_fields) :
        key_fields[j] \notin DOMAIN df_to_docs(df)[i]

\* lines 173-181, upsert(df, col, key_fields) on the documents coll of col: the
\* collections it may leave
upsert(df, coll, key_fields) ==
    LET ds == df_to_docs(df)
        keys == {key_fields[i] : i \in 1..Len(key_fields)}
    IN  IF Len(ds) = 0 THEN {coll}
        ELSE LET ops == [i \in 1..Len(ds) |->
                            [filt |-> [k \in keys |-> ds[i][k]], set |-> ds[i]]]
             IN  { BulkWrite(coll, [i \in 1..Len(ops) |-> ops[f[i]]], 1) : f \in Orders(Len(ops)) }

\* the key tuples of the documents of a frame
KeysOf(df, key_fields) ==
    LET ds == df_to_docs(df)
    IN  { [i \in 1..Len(key_fields) |-> ds[n][key_fields[i]]] : n \in 1..Len(ds) }

MaxDocs == 2    \* most records of a collection in one run

\* the frame of collection c a run ends with: n records, their other fields
\* as of version v of the snapshot
OutFrame(c, v, n) ==
    DataFrame([i \in 1..n |->
        CASE c = "courses" ->
               [k \in {"courseId", "name"} |->
                   IF k = "courseId" THEN Num(100 + i) ELSE Str(v)]
          [] c = "students" ->
               [k \in {"courseId", "userId", "profile.name.fullName"} |->
                   CASE k = "courseId" -> Num(100 + i) [] k = "userId" -> Num(11)
                     [] OTHER -> Str(v)]
          [] c = "teachers" ->
               [k \in {"courseId", "userId", "profile.name.fullName"} |->
                   CASE k = "courseId" -> Num(101) [] k = "userId" -> Num(10 + i)
                     [] OTHER -> Str(v)]
          [] c = "assignments" ->
               [k \in {"courseId", "assignmentId", "title", "dueDateTime"} |->
                   CASE k = "courseId" -> Num(100 + i) [] k = "assignmentId" -> Num(211)
                     [] k = "title" -> Str(v) [] OTHER -> NaN]
          [] c = "submissions" ->
               [k \in {"assignmentId", "submissionId", "state", "late"} |->
                   CASE k = "assignmentId" -> Num(211) [] k = "submissionId" -> Num(3110 + i)
                     [] k = "state" -> Str(v) [] OTHER -> Bool(FALSE)]])

\* the five frames a run of lines 47-153 may hand to the load stage
Outputs ==
    { [c \in Collections |-> OutFrame(c, v, n)] : v \in {"a", "b"}, n \in 0..MaxDocs }

\* a run of the script reaches line 156 with its five frames
StartLoad ==
    /\ load_pc = "idle"
    /\ docs' \in Outputs
    /\ loaded' = [loaded EXCEPT !.docs = docs, !.after = store]
    /\ load_pc' = "courses"
    /\ UNCHANGED <<store, call, tzlocal, flat, fetcher>>

\* one of the calls of lines 183-187: upsert(docs[c], cols[c], key_fields)
Upserted(c, key_fields, next) ==
    /\ IF upsert_raises(docs[c], key_fields)
       THEN load_pc' = "raised" /\ UNCHANGED <<store, loaded>>
       ELSE \E r \in upsert(docs[c], store[c], key_fields) :
               /\ store' = [store EXCEPT ![c] = r]
               /\ loaded' = [loaded EXCEPT !.keys[c] = @ \cup KeysOf(docs[c], key_fields)]
               /\ load_pc' = next
    /\ UNCHANGED <<docs, call, tzlocal, flat, fetcher>>

UpsertCourses ==
    /\ load_pc = "courses"
    /\ Upserted("courses", <<"courseId">>, "students")

UpsertStudents ==
    /\ load_pc = "students"
    /\ Upserted("students", <<"courseId", "userId">>, "teachers")

UpsertTeachers ==
    /\ load_pc = "teachers"
    /\ Upserted("teachers", <<"courseId", "userId">>, "assignments")

UpsertAssignments ==
    /\ load_pc = "assignments"
    /\ Upserted("assignments", <<"courseId", "assignmentId">>, "submissions")

UpsertSubmissions ==
    /\ load_pc = "submissions"
    /\ Upserted("submissions", <<"assignmentId", "submissionId">>, "idle")

NextLoad ==
    \/ StartLoad
    \/ UpsertCourses
    \/ UpsertStudents
    \/ UpsertTeachers
    \/ UpsertAssignments
    \/ UpsertSubmissions

SpecLoad == InitHelpers /\ [][NextLoad]_vars

-----------------------------------------------------------------------------
(* classroom_fetsher.py:228-270, the submissions of all course work of a   *)
(* course, fetched by a pool of threads                                    *)

MaxCourseWork == 3   \* most assignments handed to _fetch_all_submissions
MaxWorkers == 2      \* self.max_workers, the threads of the pool

notpool == <<call, tzlocal, flat, loader, auth, pager>>

CourseWork(i) ==
    Dict([k \in {"id", "title"} |-> IF k = "id" THEN Num(210 + i) ELSE Str("homework")])

\* what the requests of lines 232-246 for assignment i come to: an exception
\* out of one of them, or the studentSubmissions of all pages
Replies(i) == {Raise("HttpError"), List(<<>>), List(<<Submission(1, i, 1)>>)}

\* _fetch_single_assignment_submissions with the except branch returning the
\* assignment as it got it
fetch_single_no_default(assignment, reply) ==
    IF "id" \notin DOMAIN assignment.v THEN Raise("KeyError")
    ELSE IF IsRaise(reply) THEN assignment
    ELSE With(assignment, [k \in {"submissions"} |-> reply])

\* lines 228-252: the assignment with its submissions, [] when a request
\* raised; the lookup of line 230 is outside the try
fetch_single_assignment_submissions(assignment, reply) ==
    IF "id" \notin DOMAIN assignment.v THEN Raise("KeyError")
    ELSE IF IsRaise(reply) THEN With(assignment, [k \in {"submissions"} |-> List(<<>>)])
    ELSE With(assignment, [k \in {"submissions"} |-> reply])

Pending == [state |-> "pending", result |-> None, reply |-> None]

StateOf(i) == futures[i].state

\* the sequences that list every member of the set F once
Listings(F) ==
    {q \in [1..Cardinality(F) -> F] : \A i, j \in 1..Cardinality(F) : q[i] = q[j] => i = j}

\* _fetch_all_submissions(service, course_id, assignments) is called
Call_fetch_all_submissions ==
    /\ fetch_pc = "idle"
    /\ \E n \in 0..MaxCourseWork : assignments' = [i \in 1..n |-> CourseWork(i)]
    /\ fetch_pc' = "submit"
    /\ UNCHANGED <<futures, completion, to_yield, early, updated_assignments, notpool>>

\* lines 257-261: the next assignment is submitted to the executor
Submit ==
    /\ fetch_pc = "submit"
    /\ Len(futures) < Len(assignments)
    /\ futures' = Append(futures, Pending)
    /\ UNCHANGED <<assignments, completion, to_yield, early, updated_assignments, fetch_pc, notpool>>

\* a thread of the pool takes the oldest work item that waits
WorkerStart ==
    /\ \E i \in 1..Len(futures) :
          /\ StateOf(i) = "pending"
          /\ \A j \in 1..(i - 1) : StateOf(j) # "pending"
          /\ Cardinality({j \in 1..Len(futures) : StateOf(j) = "running"}) < MaxWorkers
          /\ futures' = [futures EXCEPT ![i].state = "running"]
    /\ UNCHANGED <<assignments, completion, to_yield, early, updated_assignments, fetch_pc, notpool>>

\* a thread ends _fetch_single_assignment_submissions: the assignment, which
\* the list shares with it, has its submissions; a waiting as_completed is told
WorkerFinish ==
    /\ \E i \in 1..Len(futures) : \E reply \in Replies(i) :
          /\ StateOf(i) = "running"
          /\ LET r == fetch_single_assignment_submissions(assignments[i], reply)
             IN  /\ assignments' = IF IsRaise(r) THEN assignments
                                   ELSE [assignments EXCEPT ![i] = r]
                 /\ futures' = [futures EXCEPT
                                  ![i] = [state |-> "finished", result |-> r, reply |-> reply]]
          /\ completion' = Append(completion, i)
          /\ to_yield' = IF fetch_pc = "collect" THEN Append(to_yield, i) ELSE to_yield
    /\ UNCHANGED <<early, updated_assignments, fetch_pc, notpool>>

\* line 264, as_completed(futures) is entered: the futures already finished
\* are a set, yielded first in whatever order the set lists them
AsCompleted ==
    /\ fetch_pc = "submit"
    /\ Len(futures) = Len(assignments)
    /\ early' = {i \in 1..Len(futures) : StateOf(i) = "finished"}
    /\ to_yield' \in Listings(early')
    /\ fetch_pc' = "collect"
    /\ UNCHANGED <<assignments, futures, completion, updated_assignments, notpool>>

\* lines 264-268, one turn of the loop
Collect ==
    /\ fetch_pc = "collect"
    /\ to_yield # <<>>
    /\ LET r == futures[Head(to_yield)].result
       IN  updated_assignments' = IF IsRaise(r) THEN updated_assignments
                                  ELSE Append(updated_assignments, r)
    /\ to_yield' = Tail(to_yield)
    /\ UNCHANGED <<assignments, futures, completion, early, fetch_pc, notpool>>

\* line 270: every future has been yielded
ReturnUpdated ==
    /\ fetch_pc = "collect"
    /\ to_yield = <<>>
    /\ \A i \in 1..Len(futures) : StateOf(i) = "finished"
    /\ fetch_pc' = "returned"
    /\ UNCHANGED <<assignments, futures, completion, to_yield, early, updated_assignments, notpool>>

NextFetchAll ==
    \/ Call_fetch_all_submissions
    \/ Submit
    \/ WorkerStart
    \/ WorkerFinish
    \/ AsCompleted
    \/ Collect
    \/ ReturnUpdated

SpecFetchAll == InitHelpers /\ [][NextFetchAll]_vars

-----------------------------------------------------------------------------
(* classroom_fetsher.py:13-70, the construction of the fetcher and         *)
(* _authenticate                                                           *)

MaxClock == 2        \* the hours the clock runs over
TokenLifetime == 1   \* hours an access token is good for once issued

notauth == <<call, tzlocal, flat, loader, pool, pager>>

\* the token file: not there, there but not a pickle, or pickled credentials
NoFile == [ty |-> "nofile"]
Garbage == [ty |-> "garbage"]

\* google.oauth2.credentials.Credentials: the access token, the hour it
\* expires at, the refresh token, each possibly None
Credentials(token, expiry, refresh_token) ==
    [ty |-> "creds", token |-> token, expiry |-> expiry, refresh_token |-> refresh_token]

\* creds.expired: there is an expiry and it has come
expired(c) == c.expiry # None /\ clock >= c.expiry.v

\* creds.valid: there is a token and it has not expired
valid(c) == c.token # None /\ ~expired(c)

\* what the token file may hold when the fetcher is constructed
TokenFiles ==
    {NoFile, Garbage}
    \cup { Credentials(t, e, r) :
             t \in {None, Str("t")},
             e \in {None} \cup {Num(h) : h \in 0..(MaxClock + 1)},
             r \in {None, Str("r")} }

\* line 13-37: a fetcher is constructed, on some machine at some hour;
\* line 41
Construct ==
    /\ auth_pc = "idle"
    /\ credentials_file' \in BOOLEAN
    /\ token_file' \in TokenFiles
    /\ clock' \in 0..MaxClock
    /\ creds' = None
    /\ auth_pc' = "check"
    /\ UNCHANGED <<self_creds, service, notauth>>

\* lines 43-44
CheckCredentialsFile ==
    /\ auth_pc = "check"
    /\ auth_pc' = IF credentials_file THEN "load" ELSE "raised"
    /\ UNCHANGED <<credentials_file, token_file, creds, self_creds, service, clock, notauth>>

\* lines 46-51: a file that does not unpickle leaves creds None
LoadToken ==
    /\ auth_pc = "load"
    /\ creds' = IF token_file \in {NoFile, Garbage} THEN None ELSE token_file
    /\ auth_pc' = "decide"
    /\ UNCHANGED <<credentials_file, token_file, self_creds, service, clock, notauth>>

\* lines 53-54
Decide ==
    /\ auth_pc = "decide"
    /\ auth_pc' = IF creds = None \/ ~valid(creds)
                  THEN (IF creds # None /\ expired(creds) /\ Truthy(creds.refresh_token)
                        THEN "refresh" ELSE "flow")
                  ELSE "build"
    /\ UNCHANGED <<credentials_file, token_file, creds, self_creds, service, clock, notauth>>

\* lines 55-58: the refresh gives a new token, or raises and creds is dropped
Refresh ==
    /\ auth_pc = "refresh"
    /\ \/ creds' = [creds EXCEPT !.token = Str("refreshed"),
                                 !.expiry = Num(clock + TokenLifetime)]
       \/ creds' = None
    /\ auth_pc' = "flow"
    /\ UNCHANGED <<credentials_file, token_file, self_creds, service, clock, notauth>>

\* lines 60-63: without creds the OAuth flow is run; it gives new credentials
\* or raises
Flow ==
    /\ auth_pc = "flow"
    /\ IF creds = None
       THEN \/ /\ creds' = Credentials(Str("new"), Num(clock + TokenLifetime), Str("r"))
               /\ auth_pc' = "save"
            \/ /\ auth_pc' = "raised"
               /\ UNCHANGED creds
       ELSE /\ auth_pc' = "save"
            /\ UNCHANGED creds
    /\ UNCHANGED <<credentials_file, token_file, self_creds, service, clock, notauth>>

\* lines 65-66
SaveToken ==
    /\ auth_pc = "save"
    /\ token_file' = creds
    /\ auth_pc' = "build"
    /\ UNCHANGED <<credentials_file, creds, self_creds, service, clock, notauth>>

\* lines 68-70
BuildService ==
    /\ auth_pc = "build"
    /\ self_creds' = creds
    /\ service' = creds
    /\ auth_pc' = "returned"
    /\ UNCHANGED <<credentials_file, token_file, creds, clock, notauth>>

\* the program is started again, at the same hour or later, with the files
\* as the run before left them
ConstructAgain ==
    /\ auth_pc \in {"returned", "raised"}
    /\ clock' \in clock..MaxClock
    /\ creds' = None
    /\ self_creds' = None
    /\ service' = None
    /\ auth_pc' = "check"
    /\ UNCHANGED <<credentials_file, token_file, notauth>>

NextAuth ==
    \/ Construct
    \/ CheckCredentialsFile
    \/ LoadToken
    \/ Decide
    \/ Refresh
    \/ Flow
    \/ SaveToken
    \/ BuildService
    \/ ConstructAgain

SpecAuth == InitHelpers /\ [][NextAuth]_vars

-----------------------------------------------------------------------------
(* classroom_fetsher.py:98-116 and 156-226, the paginated list requests    *)

MaxPages == 3
MaxItems == 2

notpager == <<call, tzlocal, flat, loader, pool, auth>>

PagedFetches ==
    {"get_all_courses", "_fetch_students", "_fetch_teachers",
     "_fetch_assignments", "_fetch_announcements"}

\* the resource each function lists: the field of the response that holds
\* the page's items
ApiField(fn) ==
    CASE fn = "get_all_courses"      -> "courses"
      [] fn = "_fetch_students"      -> "students"
      [] fn = "_fetch_teachers"      -> "teachers"
      [] fn = "_fetch_assignments"   -> "courseWork"
      [] fn = "_fetch_announcements" -> "announcements"

\* the key each function reads the items from
ListKey(fn) ==
    CASE fn = "get_all_courses"      -> "courses"
      [] fn = "_fetch_students"      -> "students"
      [] fn = "_fetch_teachers"      -> "teachers"
      [] fn = "_fetch_assignments"   -> "courseWork"
      [] fn = "_fetch_announcements" -> "announcements"

\* What the API does with a request for one page: it fails, or it answers
\* with n items (the field is left out of the answer when listed is FALSE)
\* and, when more is TRUE, the token of the next page.
NoAnswer == [fails |-> TRUE, listed |-> FALSE, n |-> 0, more |-> FALSE]

PageShapes ==
    {NoAnswer}
    \cup { [fails |-> FALSE, listed |-> FALSE, n |-> 0, more |-> m] : m \in BOOLEAN }
    \cup { [fails |-> FALSE, listed |-> TRUE, n |-> n, more |-> m] :
              n \in 0..MaxItems, m \in BOOLEAN }

\* the last page the API holds has no successor
PagePlans ==
    { q \in SeqsUpTo(PageShapes, MaxPages) :
         Len(q) >= 1 /\ ~q[Len(q)].more }

\* the j-th item of page k
Item(k, j) == Str(<<k, j>>)

PageItems(k, n) == [j \in 1..n |-> Item(k, j)]

\* .list(...).execute() for the first page (page_token None) or for the page
\* a nextPageToken names
execute(fn, pages, page_token) ==
    LET k == IF page_token = None THEN 1 ELSE page_token.v
        p == pages[k]
        fields == (IF p.listed THEN {ApiField(fn)} ELSE {})
                  \cup (IF p.more THEN {"nextPageToken"} ELSE {})
    IN  IF p.fails THEN Raise("HttpError")
        ELSE Dict([f \in fields |->
                      IF f = "nextPageToken" THEN Num(k + 1)
                      ELSE List(PageItems(k, p.n))])

\* except Exception: return [], and the handler that returns what was fetched
on_exception_partial(fetched) == List(fetched)

on_exception(fetched) == List(<<>>)

Call_paged_fetch ==
    /\ page_pc = "idle"
    /\ \E fn \in PagedFetches, pages \in PagePlans :
          paged_call' = [fn |-> fn, pages |-> pages]
    /\ page_pc' = "try"
    /\ UNCHANGED <<results, items, requests, ret, notpager>>

\* results = ....list(pageSize=100).execute(); items = results.get(key, [])
FirstPage ==
    /\ page_pc = "try"
    /\ LET response == execute(paged_call.fn, paged_call.pages, None)
       IN  /\ requests' = requests + 1
           /\ IF IsRaise(response)
              THEN /\ page_pc' = "except"
                   /\ UNCHANGED <<results, items>>
              ELSE /\ results' = response
                   /\ items' = Get(response, ListKey(paged_call.fn), List(<<>>)).v
                   /\ page_pc' = "while"
    /\ UNCHANGED <<paged_call, ret, notpager>>

\* while 'nextPageToken' in results: results = ....execute(); items.extend(...)
NextPage ==
    /\ page_pc = "while"
    /\ "nextPageToken" \in DOMAIN results.v
    /\ LET response == execute(paged_call.fn, paged_call.pages,
                               results.v["nextPageToken"])
       IN  /\ requests' = requests + 1
           /\ IF IsRaise(response)
              THEN /\ page_pc' = "except"
                   /\ UNCHANGED <<results, items>>
              ELSE /\ results' = response
                   /\ items' = items \o
                         Get(response, ListKey(paged_call.fn), List(<<>>)).v
                   /\ page_pc' = "while"
    /\ UNCHANGED <<paged_call, ret, notpager>>

\* return items
ReturnItems ==
    /\ page_pc = "while"
    /\ "nextPageToken" \notin DOMAIN results.v
    /\ ret' = List(items)
    /\ page_pc' = "returned"
    /\ UNCHANGED <<paged_call, results, items, requests, notpager>>

\* except Exception: return []
ReturnEmpty ==
    /\ page_pc = "except"
    /\ ret' = on_exception(items)
    /\ page_pc' = "returned"
    /\ UNCHANGED <<paged_call, results, items, requests, notpager>>

NextPages ==
    \/ Call_paged_fetch
    \/ FirstPage
    \/ NextPage
    \/ ReturnItems
    \/ ReturnEmpty

SpecPages == InitHelpers /\ [][NextPages]_vars

-----------------------------------------------------------------------------
(* Timestamps                                                              *)

\* days from 0001-01-01 to the date, counted directly
DaysBeforeMonth ==
    <<0, 31, 59, 90, 120, 151, 181, 212, 243, 273, 304, 334>>

Ordinal(y, mo, d) ==
    365 * (y - 1) + ((y - 1) \div 4) - ((y - 1) \div 100) + ((y - 1) \div 400)
    + DaysBeforeMonth[mo] + (IF mo > 2 /\ IsLeap(y) THEN 1 ELSE 0) + d

MonthLength == <<31, 28, 31, 30, 31, 30, 31, 31, 30, 31, 30, 31>>

LastDay(y, mo) == MonthLength[mo] + (IF mo = 2 /\ IsLeap(y) THEN 1 ELSE 0)

\* the instant of a wall clock f, in minutes
Minutes(f) == Ordinal(f.y, f.mo, f.d) * 1440 + f.h * 60 + f.mi

\* the text is a date-time that exists and says which zone it is in
MarksZone(text) ==
    /\ text.form = "iso"
    /\ text.tz.k \in {"Z", "off"}
    /\ text.f.mo \in 1..12
    /\ text.f.d \in 1..LastDay(text.f.y, text.f.mo)

Unparseable(text) ==
    \/ text.form # "iso"
    \/ text.f.mo \notin 1..12
    \/ text.f.d > 31
    \/ text.f.mo = 2 /\ text.f.d > 29

ZoneOffset(text) == IF text.tz.k = "Z" THEN 0 ELSE text.tz.min

\* C3: to_dt of a string that is an ISO-8601 date-time ending in "Z" or in an
\* offset is the UTC datetime of the instant the string denotes, seconds and
\* fraction kept; to_dt of a string that cannot be parsed is None, not an
\* exception.
C3_IsoStringToUtc ==
    (call.fn = "to_dt" /\ call.arg.ty = "str") =>
        /\ ~IsRaise(call.ret)
        /\ MarksZone(call.arg.v) =>
              /\ call.ret.ty = "datetime"
              /\ call.ret.tz = tzutc
              /\ Minutes(call.ret.v) = Minutes(call.arg.v.f) - ZoneOffset(call.arg.v)
              /\ call.ret.v.s = call.arg.v.f.s
              /\ call.ret.v.us = call.arg.v.f.us
        /\ Unparseable(call.arg.v) => call.ret = None

\* a string with an offset east of UTC, just after midnight: the UTC date is the
\* day before
C3_Witness ==
    /\ call.fn = "to_dt" /\ call.arg.ty = "str"
    /\ MarksZone(call.arg.v)
    /\ call.arg.v.tz = Offset(120)
    /\ call.arg.v.f.h = 0 /\ call.arg.v.f.d = 1 /\ call.arg.v.f.mo = 3
    /\ call.ret.ty = "datetime"
    /\ call.ret.v.mo = 2

\* the part of a structured date that holds year, month and day
DuePart(arg) == IF "dueDate" \in DOMAIN arg.v THEN arg.v["dueDate"] ELSE arg

IsNum(x, lo, hi) == x.ty = "int" /\ x.v >= lo /\ x.v <= hi

\* year, month and day are there and name a day of the calendar
HasDate(arg) ==
    /\ IsDict(arg) /\ IsDict(DuePart(arg))
    /\ {"year", "month", "day"} \subseteq DOMAIN DuePart(arg).v
    /\ IsNum(DuePart(arg).v["year"], 1, 9999)
    /\ IsNum(DuePart(arg).v["month"], 1, 12)
    /\ IsNum(DuePart(arg).v["day"], 1,
             LastDay(DuePart(arg).v["year"].v, DuePart(arg).v["month"].v))

\* dueTime is left out, or is a record whose hours and minutes, where given, are
\* a time of day
TimeOrMissing(arg) ==
    "dueTime" \in DOMAIN arg.v =>
        /\ IsDict(arg.v["dueTime"])
        /\ "hours" \in DOMAIN arg.v["dueTime"].v => IsNum(arg.v["dueTime"].v["hours"], 0, 23)
        /\ "minutes" \in DOMAIN arg.v["dueTime"].v => IsNum(arg.v["dueTime"].v["minutes"], 0, 59)

TimePart(arg, k) ==
    IF "dueTime" \in DOMAIN arg.v /\ k \in DOMAIN arg.v["dueTime"].v
    THEN arg.v["dueTime"].v[k].v ELSE 0

\* C4: to_dt of a structured date whose date part has year, month and day is the
\* UTC datetime with exactly that year, month and day, with hours and minutes
\* from dueTime, each 0 when dueTime or the field is left out, and no shift by
\* any zone.
C4_StructuredToUtc ==
    (call.fn = "to_dt" /\ HasDate(call.arg) /\ TimeOrMissing(call.arg)) =>
        /\ call.ret.ty = "datetime"
        /\ call.ret.tz = tzutc
        /\ call.ret.v.y = DuePart(call.arg).v["year"].v
        /\ call.ret.v.mo = DuePart(call.arg).v["month"].v
        /\ call.ret.v.d = DuePart(call.arg).v["day"].v
        /\ call.ret.v.h = TimePart(call.arg, "hours")
        /\ call.ret.v.mi = TimePart(call.arg, "minutes")
        /\ call.ret.v.s = 0 /\ call.ret.v.us = 0

\* a dueTime that gives minutes but no hours, on a machine east of UTC
C4_Witness ==
    /\ call.fn = "to_dt" /\ HasDate(call.arg) /\ TimeOrMissing(call.arg)
    /\ "dueDate" \in DOMAIN call.arg.v
    /\ "dueTime" \in DOMAIN call.arg.v
    /\ DOMAIN call.arg.v["dueTime"].v = {"minutes"}
    /\ tzlocal # 0
    /\ call.ret.ty = "datetime" /\ call.ret.v.h = 0 /\ call.ret.v.mi = 30

\* C5: to_dt of anything that is neither an ISO-8601 string nor a structured
\* date with year, month and day is None and raises nothing; so it is for
\* {"dueDate": None, "dueTime": None}, which line 82 passes for an assignment
\* without a due date.
C5_OtherShapesAbsent ==
    ( /\ call.fn = "to_dt"
      /\ IF call.arg.ty = "str" THEN call.arg.v.form # "iso"
         ELSE ~( /\ IsDict(call.arg) /\ IsDict(DuePart(call.arg))
                 /\ {"year", "month", "day"} \subseteq DOMAIN DuePart(call.arg).v) )
    => call.ret = None

AttKey == "assignmentSubmission.attachments"

\* the drive-file payload of an entry: under driveFile, or under the driveFile
\* of that
Resolved(att) ==
    LET df == att.v["driveFile"]
    IN  IF "driveFile" \in DOMAIN df.v /\ IsDict(df.v["driveFile"])
        THEN df.v["driveFile"] ELSE df

HasPayload(att) ==
    /\ IsDict(att)
    /\ "driveFile" \in DOMAIN att.v
    /\ IsDict(att.v["driveFile"])
    /\ DOMAIN Resolved(att).v # {}

Field(p, k) == IF k \in DOMAIN p.v THEN p.v[k] ELSE None

RefDescriptor(p) ==
    Dict(("id" :> Field(p, "id")) @@ ("title" :> Field(p, "title"))
         @@ ("link" :> Field(p, "alternateLink"))
         @@ ("thumb" :> Field(p, "thumbnailUrl")))

RawAttachments(row) == IF AttKey \in DOMAIN row.v THEN row.v[AttKey] ELSE None

\* C6: when every entry of the attachments list has a drive-file payload, direct
\* or double-nested, extract_attachments is the list, in input order, of
\* {id, title, link, thumb} of those payloads; when the raw value is absent, not
\* a list, or the empty list, it is None.
C6_AttachmentsReference ==
    call.fn = "extract_attachments" =>
        LET x == RawAttachments(call.arg)
        IN  /\ (~IsList(x) \/ Len(x.v) = 0) => call.ret = None
            /\ (IsList(x) /\ Len(x.v) > 0 /\ \A i \in 1..Len(x.v) : HasPayload(x.v[i])) =>
                  call.ret = List([i \in 1..Len(x.v) |-> RefDescriptor(Resolved(x.v[i]))])

\* a double-nested payload followed by a direct one
C6_Witness ==
    /\ call.fn = "extract_attachments"
    /\ IsList(RawAttachments(call.arg))
    /\ Len(RawAttachments(call.arg).v) = 2
    /\ \A i \in 1..2 : HasPayload(RawAttachments(call.arg).v[i])
    /\ "driveFile" \in DOMAIN RawAttachments(call.arg).v[1].v["driveFile"].v
    /\ "driveFile" \notin DOMAIN RawAttachments(call.arg).v[2].v["driveFile"].v
    /\ IsList(call.ret) /\ Len(call.ret.v) = 2
    /\ call.ret.v[1].v["id"] = Str("a3")

\* C7: an entry without a resolvable drive-file payload adds no descriptor: the
\* result holds one descriptor per entry that has a payload, and is None when
\* no entry has one.
C7_NoPayloadSkipped ==
    (call.fn = "extract_attachments" /\ IsList(RawAttachments(call.arg))
       /\ ~IsRaise(call.ret)) =>
        LET x == RawAttachments(call.arg).v
            n == Cardinality({i \in 1..Len(x) : HasPayload(x[i])})
        IN  IF n = 0 THEN call.ret = None
            ELSE IsList(call.ret) /\ Len(call.ret.v) = n

Qualifies(h) ==
    /\ IsDict(h)
    /\ "gradeHistory" \in DOMAIN h.v
    /\ IsDict(h.v["gradeHistory"])
    /\ "pointsEarned" \in DOMAIN h.v["gradeHistory"].v

\* C8: pick_latest_points is the pointsEarned of the last entry, in list order,
\* whose gradeHistory has the key pointsEarned (0 and null included), and None
\* when there is no such entry.
C8_LastListedPoints ==
    call.fn = "pick_latest_points" =>
        LET q == IF IsList(call.arg)
                 THEN {i \in 1..Len(call.arg.v) : Qualifies(call.arg.v[i])} ELSE {}
        IN  IF q = {} THEN call.ret = None
            ELSE LET last == CHOOSE i \in q : \A j \in q : j <= i
                 IN  call.ret = call.arg.v[last].v["gradeHistory"].v["pointsEarned"]

\* [5, (other), 0]: the explicit 0 listed last is the result
C8_Witness ==
    /\ call.fn = "pick_latest_points"
    /\ IsList(call.arg) /\ Len(call.arg.v) = 3
    /\ call.arg.v[1] = Grade("pointsEarned", Num(5))
    /\ call.arg.v[2] = Grade("other", Num(1))
    /\ call.arg.v[3] = Grade("pointsEarned", Num(0))
    /\ call.ret = Num(0)

\* C9: whatever the shape of the raw attachments and of submissionHistory,
\* extract_attachments and pick_latest_points raise nothing.
C9_HelpersNeverRaise ==
    call.fn \in {"extract_attachments", "pick_latest_points"} => ~IsRaise(call.ret)

-----------------------------------------------------------------------------
(* The flattened collections                                               *)

RECURSIVE Flat(_)
\* the sequences of a sequence, one after the other
Flat(ss) == IF Len(ss) = 0 THEN <<>> ELSE Head(ss) \o Flat(Tail(ss))

\* the entries a block lists under key; none when it has no such key
Listed(b, key) == IF key \in DOMAIN b.v THEN b.v[key].v ELSE <<>>

\* per entry of the list key of every block, in input order: f(block, entry)
PerEntry(raw, key, f(_, _)) ==
    Flat([c \in 1..Len(raw) |->
            [i \in 1..Len(Listed(raw[c], key)) |-> f(raw[c], Listed(raw[c], key)[i])]])

\* per submission of every assignment of every block, in input order
PerSubmission(raw, f(_, _, _)) ==
    Flat([c \in 1..Len(raw) |->
            Flat([j \in 1..Len(Listed(raw[c], "assignments")) |->
                    LET a == Listed(raw[c], "assignments")[j]
                    IN  [n \in 1..Len(Listed(a, "submissions")) |->
                            f(raw[c], a, Listed(a, "submissions")[n])]])])

\* the records a statement group has produced: none when it raised
Records(df) == IF IsFrame(df) THEN df.rows ELSE <<>>

Column(df, label) == [i \in 1..Len(Records(df)) |-> Records(df)[i][label]]

CourseIdOf(b) == b.v["course_info"].v["id"]

\* C1: every Student, Teacher and Assignment record carries the id of the
\* course_info of the block its entry is listed in, and every Submission record
\* the ids of the course and of the assignment it is listed under.
C1_ForeignKeys ==
    /\ IsFrame(students_df) =>
          Column(students_df, "courseId")
            = PerEntry(courses_raw, "students", LAMBDA b, e : CourseIdOf(b))
    /\ IsFrame(teachers_df) =>
          Column(teachers_df, "courseId")
            = PerEntry(courses_raw, "teachers", LAMBDA b, e : CourseIdOf(b))
    /\ IsFrame(assignments_df) =>
          Column(assignments_df, "courseId")
            = PerEntry(courses_raw, "assignments", LAMBDA b, e : CourseIdOf(b))
    /\ IsFrame(submissions_df) =>
          /\ Column(submissions_df, "assignmentId")
               = PerSubmission(courses_raw, LAMBDA b, a, e : a.v["id"])
          /\ Column(submissions_df, "courseId")
               = PerSubmission(courses_raw, LAMBDA b, a, e : CourseIdOf(b))

\* every block of the snapshot has all its lists, and every assignment its
\* submissions
Complete(raw) ==
    \A c \in 1..Len(raw) :
        /\ {"students", "teachers", "assignments"} \subseteq DOMAIN raw[c].v
        /\ \A j \in 1..Len(raw[c].v["assignments"].v) :
              "submissions" \in DOMAIN raw[c].v["assignments"].v[j].v

\* C2: the script produces one Course record per block and one Student,
\* Teacher, Assignment and Submission record per listed entry, none dropped,
\* none twice, in the order of the input lists.
C2_OneRecordPerEntry ==
    (pc = "done" /\ Complete(courses_raw)) =>
        /\ Len(Records(courses_df)) = Len(courses_raw)
        /\ Column(students_df, "userId")
             = PerEntry(courses_raw, "students", LAMBDA b, e : e.v["userId"])
        /\ Column(teachers_df, "userId")
             = PerEntry(courses_raw, "teachers", LAMBDA b, e : e.v["userId"])
        /\ Column(assignments_df, "assignmentId")
             = PerEntry(courses_raw, "assignments", LAMBDA b, e : e.v["id"])
        /\ Column(submissions_df, "submissionId")
             = PerSubmission(courses_raw, LAMBDA b, a, e : e.v["id"])

\* C10: a block without students, teachers or assignments, or an assignment
\* without submissions, counts as having the empty list there: no group
\* raises over it, and the records of the other lists and blocks are all there.
C10_MissingListIsEmpty ==
    pc = "done" =>
        /\ \A g \in {"students", "teachers", "assignments", "submissions"} : raised[g] = ""
        /\ Column(students_df, "userId")
             = PerEntry(courses_raw, "students", LAMBDA b, e : e.v["userId"])
        /\ Column(teachers_df, "userId")
             = PerEntry(courses_raw, "teachers", LAMBDA b, e : e.v["userId"])
        /\ Column(assignments_df, "assignmentId")
             = PerEntry(courses_raw, "assignments", LAMBDA b, e : e.v["id"])
        /\ Column(submissions_df, "submissionId")
             = PerSubmission(courses_raw, LAMBDA b, a, e : e.v["id"])

-----------------------------------------------------------------------------
(* The Submission records                                                  *)

\* line 145 has been evaluated on a frame of submissions
LateEvaluated == pc \in {"keep", "done"} /\ IsFrame(submissions_df)

\* C11: in every Submission record late is false when the source submission
\* has no late field, also when no submission of the snapshot has one, and is
\* the source's boolean otherwise.
C11_LateDefaultsToFalse ==
    LateEvaluated =>
        /\ raised["late"] = ""
        /\ Column(submissions_df, "late")
             = PerSubmission(courses_raw,
                   LAMBDA b, a, e : IF "late" \in DOMAIN e.v THEN e.v["late"] ELSE Bool(FALSE))

\* the fields a Submission record may have
AllowList ==
    {"submissionId", "courseId", "assignmentId", "assignmentTitle", "userId", "state",
     "creationTime", "updateTime", "late", "draftGrade", "pointsEarned_latest",
     "attachments", "alternateLink"}

\* the labels of the fields of the snapshot's submissions, nested ones dotted
RawLabels ==
    LET q == PerSubmission(courses_raw, LAMBDA b, a, e : e)
    IN  UNION {DOMAIN nested_to_record(q[i]) : i \in 1..Len(q)}

\* line 153 has been evaluated on a frame of submissions
KeepEvaluated == pc = "done" /\ IsFrame(submissions_df)

\* C12: a Submission record has no field outside the allow-list; the other
\* fields of the raw submission, submissionHistory and
\* assignmentSubmission.attachments among them, are not in it.
C12_OnlyAllowListed ==
    KeepEvaluated =>
        /\ submissions_df.cols \subseteq AllowList
        /\ \A i \in 1..Len(submissions_df.rows) :
              /\ DOMAIN submissions_df.rows[i] \subseteq AllowList
              /\ \A l \in RawLabels \ AllowList : l \notin DOMAIN submissions_df.rows[i]

\* records made of submissions that have a history, attachments and a late
\* flag, after all of lines 107-153 went through
C12_Witness ==
    /\ KeepEvaluated
    /\ Len(submissions_df.rows) = MaxSubs
    /\ {"submissionHistory", "assignmentSubmission.attachments", "courseWorkType"}
          \subseteq RawLabels
    /\ \A g \in {"submissions", "timestamps", "attachments", "points", "late", "keep"} :
          raised[g] = ""
    /\ {"pointsEarned_latest", "attachments", "late", "submissionId"}
          \subseteq submissions_df.cols

\* C13: a second run of the script on the same snapshot leaves the same five
\* collections as the first, whatever the machine's settings and whether or
\* not the timestamps of the snapshot carry a zone.
C13_SameOutputOnRerun ==
    (pc = "done" /\ first_run # NoRun) => Frames = first_run

\* the blocks of the snapshot that have their course_info
WithInfo(raw) == SelectSeq(raw, LAMBDA b : "course_info" \in DOMAIN b.v)

Values(q) == {q[i] : i \in 1..Len(q)}

\* C14: a block that cannot be processed, such as one without course_info, is
\* skipped by itself: nothing is raised out of the statement, and the
\* students, teachers and assignments of the other blocks are all emitted.
C14_SkipAndContinue ==
    pc = "done" =>
        /\ \A g \in {"students", "teachers", "assignments"} : raised[g] = ""
        /\ Values(PerEntry(WithInfo(courses_raw), "students", LAMBDA b, e : e.v["userId"]))
              \subseteq Values(Column(students_df, "userId"))
        /\ Values(PerEntry(WithInfo(courses_raw), "teachers", LAMBDA b, e : e.v["userId"]))
              \subseteq Values(Column(teachers_df, "userId"))
        /\ Values(PerEntry(WithInfo(courses_raw), "assignments", LAMBDA b, e : e.v["id"]))
              \subseteq Values(Column(assignments_df, "assignmentId"))

-----------------------------------------------------------------------------
(* The store                                                               *)

\* the key tuple of each collection
KeyTuple ==
    [c \in Collections |->
        CASE c = "courses" -> <<"courseId">>
          [] c \in {"students", "teachers"} -> <<"courseId", "userId">>
          [] c = "assignments" -> <<"courseId", "assignmentId">>
          [] c = "submissions" -> <<"assignmentId", "submissionId">>]

\* the key of a stored document of collection c
KeyIn(c, doc) == [i \in 1..Len(KeyTuple[c]) |-> doc[KeyTuple[c][i]]]

\* C15: whatever has been loaded, a collection never holds two documents with
\* the same key tuple and holds one for every key tuple upserted so far; and
\* a run that loads the frames the run before it loaded leaves the store as
\* that run left it.
C15_UpsertByKey ==
    /\ \A c \in Collections :
          /\ \A i, j \in 1..Len(store[c]) :
                KeyIn(c, store[c][i]) = KeyIn(c, store[c][j]) => i = j
          /\ {KeyIn(c, store[c][i]) : i \in 1..Len(store[c])} = loaded.keys[c]
    /\ (load_pc = "idle" /\ docs # NoDocs /\ docs = loaded.docs) => store = loaded.after

\* the same frames of MaxDocs records each loaded twice in a row, over a store
\* that held the other version of them
C15_Witness ==
    /\ load_pc = "idle"
    /\ docs = [c \in Collections |-> OutFrame(c, "b", MaxDocs)]
    /\ docs = loaded.docs
    /\ \A c \in Collections :
          /\ Len(store[c]) = MaxDocs
          /\ store[c] = df_to_docs(docs[c])

-----------------------------------------------------------------------------
(* The fetcher                                                             *)

Returned == fetch_pc = "returned"

\* the ids of a list of assignments, in its order
Ids(q) == [k \in 1..Len(q) |-> q[k].v["id"]]

\* the returned list holds every assignment of the input once, and no other
EachOnce ==
    /\ Len(updated_assignments) = Len(assignments)
    /\ \A i \in 1..Len(assignments) :
          \E k \in 1..Len(updated_assignments) :
              updated_assignments[k].v["id"] = CourseWork(i).v["id"]

\* every returned assignment has the submissions its requests came to, and
\* the empty list when they raised
WithSubmissions ==
    \A k \in 1..Len(updated_assignments) :
        \A i \in 1..Len(futures) :
            updated_assignments[k].v["id"] = CourseWork(i).v["id"] =>
                /\ "submissions" \in DOMAIN updated_assignments[k].v
                /\ updated_assignments[k].v["submissions"]
                     = IF IsRaise(futures[i].reply) THEN List(<<>>) ELSE futures[i].reply

\* C16 as stated: under every schedule of the threads and whatever requests
\* fail, _fetch_all_submissions returns every input assignment exactly once,
\* each with its submissions list, empty when its request raised, in the order
\* in which the threads completed them.
C16_EachOnceInCompletionOrder ==
    Returned =>
        /\ EachOnce
        /\ WithSubmissions
        /\ Ids(updated_assignments) = [k \in 1..Len(completion) |-> CourseWork(completion[k]).v["id"]]

\* C16 amended: the same, but only the assignments completed after the loop
\* of line 264 was entered are in completion order; those completed before
\* come first, in any order.
C16_EachOnceInYieldOrder ==
    Returned =>
        /\ EachOnce
        /\ WithSubmissions
        /\ \A k \in 1..Cardinality(early) :
              \E i \in early : updated_assignments[k].v["id"] = CourseWork(i).v["id"]
        /\ LET rest == SelectSeq(completion, LAMBDA i : i \notin early)
           IN  \A k \in 1..Len(rest) :
                  updated_assignments[Cardinality(early) + k].v["id"]
                     = CourseWork(rest[k]).v["id"]

\* MaxCourseWork assignments returned out of input order, one of them after a
\* failed request, some completed before the loop was entered and some after
C16_Witness ==
    /\ Returned
    /\ Len(updated_assignments) = MaxCourseWork
    /\ Ids(updated_assignments) # Ids(assignments)
    /\ \E i \in 1..Len(futures) : IsRaise(futures[i].reply)
    /\ early # {} /\ Cardinality(early) < Len(futures)

\* C17: when _authenticate has returned, self.creds is a valid credential,
\* whatever the token file held: it has a token and has not expired.
C17_ReturnsValidCredential ==
    auth_pc = "returned" =>
        /\ self_creds # None
        /\ self_creds.token # None
        /\ (self_creds.expiry = None \/ clock < self_creds.expiry.v)

\* the page at which the API stops a walk from page k: the first one that
\* fails or carries no nextPageToken
RECURSIVE LastPage(_, _)
LastPage(pages, k) ==
    IF pages[k].fails \/ ~pages[k].more THEN k ELSE LastPage(pages, k + 1)

\* the items of pages 1..k, page after page
RECURSIVE Concatenation(_, _)
Concatenation(pages, k) ==
    IF k = 0 THEN <<>>
    ELSE Concatenation(pages, k - 1) \o PageItems(k, pages[k].n)

\* C18: a paginated fetch makes no request after the first page without
\* nextPageToken and returns the items of all pages up to it in page order;
\* when a page request raises, it returns the empty list, whatever the pages
\* before it held.
C18_PagesConcatenatedOrEmpty ==
    page_pc = "returned" =>
        LET pages == paged_call.pages
            last == LastPage(pages, 1)
        IN  /\ requests = last
            /\ ret = IF pages[last].fails THEN List(<<>>)
                     ELSE List(Concatenation(pages, last))

\* a fetch over two pages with items has returned, with a page left that
\* was not asked for
C18_Witness ==
    /\ page_pc = "returned"
    /\ requests = 2
    /\ Len(paged_call.pages) = MaxPages
    /\ Len(ret.v) = 2 * MaxItems

====
